---------------------------- MODULE Spec2Model ----------------------------
(***************************************************************************)
(* Command Resolution Pipeline of ShibuCore (src/shibu_main.py):           *)
(* run() -> listen() -> handle_command() -> find_local_command() ->        *)
(* query_local_llm() -> query_gemini(), with execute_file() and speak().   *)
(*                                                                         *)
(* A Python str is a sequence of one-character strings, so that strip,     *)
(* lower, replace, split and the `in` operator are computed as Python      *)
(* computes them.  None (and every path-or-None result) is the empty       *)
(* sequence: a path returned by the code is never empty, and the code      *)
(* tests these results only by truthiness.                                 *)
(***************************************************************************)
EXTENDS Integers, Sequences, FiniteSets, TLC

VARIABLES
    commands_dir,    \* self.commands_dir
    gemini_api_key,  \* self.gemini_api_key: "None" (unset), "" or "key"
    model_path,      \* self.model_path
    use_local_llm,   \* self.use_local_llm
    llm,             \* self.llm: "None" or "loaded"
    dir_exists,      \* os.path.exists(self.commands_dir)
    listing,         \* names glob enumerates in the directory, in scandir order
    pc,              \* where run()/handle_command() stands
    command,         \* the utterance of the current run
    log,             \* what the current run did, in order
    file_path,       \* handle_command's local: what find_local_command gave
    predicted_path,  \* handle_command's local: what query_local_llm gave
    llm_out,         \* what self.llm(prompt, max_tokens=64) did in this run
    response,        \* what requests.post(...) did in this run
    executed,        \* argument vectors handed to subprocess.run by execute_file
    requests,        \* number of requests.post calls of the current run
    outcome,         \* how the last run ended
    player,          \* the audio player speak() launched: "none", "running", "exited"
    prev             \* what the call of handle_command before this one did

vars == <<commands_dir, gemini_api_key, model_path, use_local_llm, llm, dir_exists, listing, pc, command,
          log, file_path, predicted_path, llm_out, response, executed, requests,
          outcome, player, prev>>

(***************************************************************************)
(* Python str operations                                                   *)
(***************************************************************************)
None == <<>>

\* str.isspace() characters that occur in the model's texts
Whitespace == {" ", "\t", "\n"}

UpperCase ==
    <<"A", "B", "C", "D", "E", "F", "G", "H", "I", "J", "K", "L", "M",
      "N", "O", "P", "Q", "R", "S", "T", "U", "V", "W", "X", "Y", "Z">>

LowerCase ==
    <<"a", "b", "c", "d", "e", "f", "g", "h", "i", "j", "k", "l", "m",
      "n", "o", "p", "q", "r", "s", "t", "u", "v", "w", "x", "y", "z">>

\* The lower-case letter of each upper-case letter
ToLower ==
    [c \in {UpperCase[i] : i \in 1..26} |->
        LowerCase[CHOOSE i \in 1..26 : UpperCase[i] = c]]

LowerChar(c) == IF c \in DOMAIN ToLower THEN ToLower[c] ELSE c

\* s.lower()
Lower(s) == [i \in 1..Len(s) |-> LowerChar(s[i])]

\* s.replace(a, b) for one-character a and b
Replace(s, a, b) == [i \in 1..Len(s) |-> IF s[i] = a THEN b ELSE s[i]]

\* sub in s
Contains(sub, s) ==
    \E i \in 0..(Len(s) - Len(sub)) : \A k \in 1..Len(sub) : s[i + k] = sub[k]

\* s.startswith(p), s.endswith(p)
StartsWith(s, p) == Len(p) <= Len(s) /\ SubSeq(s, 1, Len(p)) = p

EndsWith(s, p) == Len(p) <= Len(s) /\ SubSeq(s, Len(s) - Len(p) + 1, Len(s)) = p

RECURSIVE LStrip(_, _)
LStrip(s, chars) ==
    IF s # <<>> /\ Head(s) \in chars THEN LStrip(Tail(s), chars) ELSE s

RECURSIVE RStrip(_, _)
RStrip(s, chars) ==
    IF s # <<>> /\ s[Len(s)] \in chars
    THEN RStrip(SubSeq(s, 1, Len(s) - 1), chars)
    ELSE s

\* s.strip(chars); s.strip() is StripChars(s, Whitespace)
StripChars(s, chars) == RStrip(LStrip(s, chars), chars)

Strip(s) == StripChars(s, Whitespace)

\* s.split(sep) for a one-character sep: empty pieces are kept
RECURSIVE SplitOn(_, _)
SplitOn(s, sep) ==
    IF \E i \in 1..Len(s) : s[i] = sep
    THEN LET i == CHOOSE k \in 1..Len(s) :
                      s[k] = sep /\ \A j \in 1..(k - 1) : s[j] # sep
         IN <<SubSeq(s, 1, i - 1)>> \o SplitOn(SubSeq(s, i + 1, Len(s)), sep)
    ELSE <<s>>

\* s.split(): pieces between runs of whitespace, no empty piece
RECURSIVE Split(_)
Split(s) ==
    LET t == LStrip(s, Whitespace)
    IN IF t = <<>>
       THEN <<>>
       ELSE LET n == IF \E i \in 1..Len(t) : t[i] \in Whitespace
                     THEN (CHOOSE k \in 1..Len(t) :
                               t[k] \in Whitespace
                               /\ \A j \in 1..(k - 1) : t[j] \notin Whitespace) - 1
                     ELSE Len(t)
            IN <<SubSeq(t, 1, n)>> \o Split(SubSeq(t, n + 1, Len(t)))

\* os.path.join(d, name) for a relative name, os.path.basename(path)
Join(d, name) == d \o <<"/">> \o name

Basename(path) == SplitOn(path, "/")[Len(SplitOn(path, "/"))]

\* The one character of the model that no UTF-8 stdout can encode: the lone
\* surrogate os.fsdecode() gives for an undecodable byte of a file name.
Encodable(s) == \A i \in 1..Len(s) : s[i] # "uDCE9"

(***************************************************************************)
(* Texts of the model                                                      *)
(***************************************************************************)
\* './commands'  (src/shibu_main.py:56 default commands_dir)
DefaultCommandsDir ==
    <<".", "/", "c", "o", "m", "m", "a", "n", "d", "s">>
\* './models/tinydolphin-1.1b.Q4_K_M.gguf'  (src/shibu_main.py:57 default model_path)
DefaultModelPath ==
    <<".", "/", "m", "o", "d", "e", "l", "s", "/", "t", "i", "n", "y", "d", "o", "l", "p", "h", "i", "n", "-", "1", ".", "1", "b", ".", "Q", "4", "_", "K", "_", "M", ".", "g", "g", "u", "f">>
\* 'move_forward.sh'
f_move_forward_sh ==
    <<"m", "o", "v", "e", "_", "f", "o", "r", "w", "a", "r", "d", ".", "s", "h">>
\* 'celebrate.py'
f_celebrate_py ==
    <<"c", "e", "l", "e", "b", "r", "a", "t", "e", ".", "p", "y">>
\* 'go_up.sh'
f_go_up_sh ==
    <<"g", "o", "_", "u", "p", ".", "s", "h">>
\* 'Move_Forward.sh'
f_Move_Forward_sh ==
    <<"M", "o", "v", "e", "_", "F", "o", "r", "w", "a", "r", "d", ".", "s", "h">>
\* 'move_back.py'
f_move_back_py ==
    <<"m", "o", "v", "e", "_", "b", "a", "c", "k", ".", "p", "y">>
\* 'caf\\udce9.sh'  (a name holding the undecodable byte 0xE9 (os.fsdecode: U+DCE9))
f_caf_sh ==
    <<"c", "a", "f", "uDCE9", ".", "s", "h">>
\* 'move'
w_move ==
    <<"m", "o", "v", "e">>
\* 'forward'
w_forward ==
    <<"f", "o", "r", "w", "a", "r", "d">>
\* 'please'
w_please ==
    <<"p", "l", "e", "a", "s", "e">>
\* 'up'
w_up ==
    <<"u", "p">>
\* ''
u_empty ==
    <<>>
\* ' '
u_blank ==
    <<" ">>
\* 'move forward please'
u_move_forward_please ==
    <<"m", "o", "v", "e", " ", "f", "o", "r", "w", "a", "r", "d", " ", "p", "l", "e", "a", "s", "e">>
\* 'move  forward'
u_move_2sp_forward ==
    <<"m", "o", "v", "e", " ", " ", "f", "o", "r", "w", "a", "r", "d">>
\* 'go  up'
u_go_2sp_up ==
    <<"g", "o", " ", " ", "u", "p">>
\* 'go\\tup'
u_go_tab_up ==
    <<"g", "o", "\t", "u", "p">>
\* ' go up '
u_pad_go_up ==
    <<" ", "g", "o", " ", "u", "p", " ">>
\* 'please move forward'
u_please_move_forward ==
    <<"p", "l", "e", "a", "s", "e", " ", "m", "o", "v", "e", " ", "f", "o", "r", "w", "a", "r", "d">>
\* 'dance'
u_dance ==
    <<"d", "a", "n", "c", "e">>
\* 'Celebrate'
u_Celebrate ==
    <<"C", "e", "l", "e", "b", "r", "a", "t", "e">>
\* 'caf'
u_caf ==
    <<"c", "a", "f">>
\* 'safe'
t_safe ==
    <<"s", "a", "f", "e">>
\* 'unsafe'
t_unsafe ==
    <<"u", "n", "s", "a", "f", "e">>
\* 'yes'
t_yes ==
    <<"y", "e", "s">>
\* 'ok'
t_ok ==
    <<"o", "k">>
\* 'doable'
t_doable ==
    <<"d", "o", "a", "b", "l", "e">>
\* 'feasible'
t_feasible ==
    <<"f", "e", "a", "s", "i", "b", "l", "e">>
\* '.py'
t_py ==
    <<".", "p", "y">>
\* 'python3'
t_python3 ==
    <<"p", "y", "t", "h", "o", "n", "3">>
\* '  "celebrate.py"\n'
m_quoted_celebrate ==
    <<" ", " ", "\"", "c", "e", "l", "e", "b", "r", "a", "t", "e", ".", "p", "y", "\"", "\n">>
\* '""'
m_two_quotes ==
    <<"\"", "\"">>
\* 'the forward script'
m_the_forward_script ==
    <<"t", "h", "e", " ", "f", "o", "r", "w", "a", "r", "d", " ", "s", "c", "r", "i", "p", "t">>
\* 'nothing fits'
m_nothing_fits ==
    <<"n", "o", "t", "h", "i", "n", "g", " ", "f", "i", "t", "s">>
\* 'Move now'
m_Move_now ==
    <<"M", "o", "v", "e", " ", "n", "o", "w">>
\* '  '
m_spaces ==
    <<" ", " ">>
\* 'UNSAFE, this could damage the device'
a_unsafe_damage ==
    <<"U", "N", "S", "A", "F", "E", ",", " ", "t", "h", "i", "s", " ", "c", "o", "u", "l", "d", " ", "d", "a", "m", "a", "g", "e", " ", "t", "h", "e", " ", "d", "e", "v", "i", "c", "e">>
\* 'SAFE'
a_safe ==
    <<"S", "A", "F", "E">>
\* 'this is not safe'
a_not_safe ==
    <<"t", "h", "i", "s", " ", "i", "s", " ", "n", "o", "t", " ", "s", "a", "f", "e">>
\* 'Yes'
a_yes ==
    <<"Y", "e", "s">>
\* 'no'
a_no ==
    <<"n", "o">>
\* 'looks doable'
a_looks_doable ==
    <<"l", "o", "o", "k", "s", " ", "d", "o", "a", "b", "l", "e">>
\* 'book it'
a_book ==
    <<"b", "o", "o", "k", " ", "i", "t">>
\* ''
a_empty ==
    <<>>
\* '{"promptFeedback": {"blockReason": "SAFETY"}}'
b_blocked ==
    <<"{", "\"", "p", "r", "o", "m", "p", "t", "F", "e", "e", "d", "b", "a", "c", "k", "\"", ":", " ", "{", "\"", "b", "l", "o", "c", "k", "R", "e", "a", "s", "o", "n", "\"", ":", " ", "\"", "S", "A", "F", "E", "T", "Y", "\"", "}", "}">>
\* '{"error": {"message": "API key not valid"}}'
b_error ==
    <<"{", "\"", "e", "r", "r", "o", "r", "\"", ":", " ", "{", "\"", "m", "e", "s", "s", "a", "g", "e", "\"", ":", " ", "\"", "A", "P", "I", " ", "k", "e", "y", " ", "n", "o", "t", " ", "v", "a", "l", "i", "d", "\"", "}", "}">>
\* '{"candidates": []}'
b_empty_cand ==
    <<"{", "\"", "c", "a", "n", "d", "i", "d", "a", "t", "e", "s", "\"", ":", " ", "[", "]", "}">>
\* '{"candidates": [], "usageMetadata": {"promptTokenCount": 5}}'
b_empty_cand_tokens ==
    <<"{", "\"", "c", "a", "n", "d", "i", "d", "a", "t", "e", "s", "\"", ":", " ", "[", "]", ",", " ", "\"", "u", "s", "a", "g", "e", "M", "e", "t", "a", "d", "a", "t", "a", "\"", ":", " ", "{", "\"", "p", "r", "o", "m", "p", "t", "T", "o", "k", "e", "n", "C", "o", "u", "n", "t", "\"", ":", " ", "5", "}", "}">>
\* "{'candidates': [{'content': {'parts': []}}]}"
b_empty_parts ==
    <<"{", "'", "c", "a", "n", "d", "i", "d", "a", "t", "e", "s", "'", ":", " ", "[", "{", "'", "c", "o", "n", "t", "e", "n", "t", "'", ":", " ", "{", "'", "p", "a", "r", "t", "s", "'", ":", " ", "[", "]", "}", "}", "]", "}">>
\* "{'candidates': [{'content': {'parts': []}, 'finishReason': 'SAFETY'}]}"
b_empty_parts_safety ==
    <<"{", "'", "c", "a", "n", "d", "i", "d", "a", "t", "e", "s", "'", ":", " ", "[", "{", "'", "c", "o", "n", "t", "e", "n", "t", "'", ":", " ", "{", "'", "p", "a", "r", "t", "s", "'", ":", " ", "[", "]", "}", ",", " ", "'", "f", "i", "n", "i", "s", "h", "R", "e", "a", "s", "o", "n", "'", ":", " ", "'", "S", "A", "F", "E", "T", "Y", "'", "}", "]", "}">>
\* '[1]'
b_list ==
    <<"[", "1", "]">>

(***************************************************************************)
(* Program constants                                                       *)
(***************************************************************************)
\* len(w) > 2: the length a word must exceed to count as a token
MinTokenLen == 2

\* cmd_words[:2]: how many tokens the heuristic tier looks at
HeuristicWords == 2

(***************************************************************************)
(* The Registry: glob over the commands directory                          *)
(***************************************************************************)
\* glob.glob(os.path.join(self.commands_dir, "*" + pattern + "*")): the paths
\* of the enumerated names that contain pattern, in enumeration order and
\* with the case of the name as it is (POSIX).  The texts of the model hold
\* none of glob's metacharacters (*, ?, [).  A missing directory gives [].
Glob(pattern) ==
    IF dir_exists
    THEN LET hits == SelectSeq(listing, LAMBDA name : Contains(pattern, name))
         IN [i \in 1..Len(hits) |-> Join(commands_dir, hits[i])]
    ELSE <<>>

\* print(...) of a text to a stdout whose error handler is strict (Python's
\* default) raises UnicodeEncodeError when the text cannot be encoded.
PrintRaises(text) == ~Encodable(text)

\* [w for w in s.split() if len(w) > 2]
LongWords(s) == SelectSeq(Split(s), LAMBDA w : Len(w) > MinTokenLen)

\* s[:n]
Prefix(s, n) == SubSeq(s, 1, IF Len(s) < n THEN Len(s) ELSE n)

(***************************************************************************)
(* find_local_command                                                      *)
(***************************************************************************)
\* command.strip().lower().replace(" ", "_")
Pattern(cmd) == Replace(Lower(Strip(cmd)), " ", "_")

\* HeuristicQualifies with any(...) in place of the outer all(...)
HeuristicQualifies_AnyWord(fpath, words) ==
    LET fname == Lower(Basename(fpath))
        toks == SplitOn(Replace(fname, ".", "_"), "_")
    IN \E i \in 1..Len(words) : \E j \in 1..Len(toks) : Contains(words[i], toks[j])

\* all(any(w in tok for tok in fname.replace(".", "_").split("_")) for w in words)
HeuristicQualifies(fpath, words) ==
    LET fname == Lower(Basename(fpath))
        toks == SplitOn(Replace(fname, ".", "_"), "_")
    IN \A i \in 1..Len(words) : \E j \in 1..Len(toks) : Contains(words[i], toks[j])

\* The result of a tier: ret is the path (None when nothing was found),
\* tier says which branch returned, raised that an exception left the call.
Result(ret, tier, raised) == [ret |-> ret, tier |-> tier, raised |-> raised]

\* find_local_command without the os.path.exists test, over an enumeration
\* (os.listdir) that raises when the directory is missing
find_local_command_NoExistsTest(cmd) ==
    IF ~dir_exists
    THEN Result(None, "unavailable", TRUE)
    ELSE LET files == Glob(Pattern(cmd))
             available_files == Glob(<<>>)
             cmd_words == LongWords(Lower(cmd))
             heur == SelectSeq(available_files,
                         LAMBDA fpath :
                             HeuristicQualifies(fpath, Prefix(cmd_words, HeuristicWords)))
         IN IF files # <<>>
            THEN IF PrintRaises(files[1])
                 THEN Result(None, "exact", TRUE)
                 ELSE Result(files[1], "exact", FALSE)
            ELSE IF heur # <<>>
                 THEN IF PrintRaises(heur[1])
                      THEN Result(None, "heuristic", TRUE)
                      ELSE Result(heur[1], "heuristic", FALSE)
                 ELSE Result(None, "none", FALSE)

find_local_command(cmd) ==
    IF ~dir_exists
    THEN Result(None, "unavailable", FALSE)
    ELSE LET files == Glob(Pattern(cmd))
             available_files == Glob(<<>>)
             cmd_words == LongWords(Lower(cmd))
             heur == SelectSeq(available_files,
                         LAMBDA fpath :
                             HeuristicQualifies(fpath, Prefix(cmd_words, HeuristicWords)))
         IN IF files # <<>>
            THEN IF PrintRaises(files[1])
                 THEN Result(None, "exact", TRUE)
                 ELSE Result(files[1], "exact", FALSE)
            ELSE IF heur # <<>>
                 THEN IF PrintRaises(heur[1])
                      THEN Result(None, "heuristic", TRUE)
                      ELSE Result(heur[1], "heuristic", FALSE)
                 ELSE Result(None, "none", FALSE)

(***************************************************************************)
(* execute_file                                                            *)
(***************************************************************************)
\* Argv as one command line, the way a shell would be given it
Argv_CommandLine(path) ==
    IF EndsWith(path, t_py) THEN <<t_python3 \o <<" ">> \o path>> ELSE <<path>>

\* The argument vector execute_file hands to subprocess.run
Argv(path) == IF EndsWith(path, t_py) THEN <<t_python3, path>> ELSE <<path>>

(***************************************************************************)
(* query_local_llm                                                         *)
(***************************************************************************)
\* sum(1 for t in tokens if t in fname.lower())
Score(tokens, fname) ==
    Cardinality({i \in 1..Len(tokens) : Contains(tokens[i], Lower(fname))})

\* The scoring loop: a file replaces the best one only with a higher score.
RECURSIVE BestLoop(_, _, _, _)
BestLoop(names, tokens, best_score, best_file) ==
    IF names = <<>>
    THEN [best_score |-> best_score, best_file |-> best_file]
    ELSE IF Score(tokens, Head(names)) > best_score
         THEN BestLoop(Tail(names), tokens, Score(tokens, Head(names)), Head(names))
         ELSE BestLoop(Tail(names), tokens, best_score, best_file)

\* The scoring loop with `score >= best_score`: the last of equal scores wins
RECURSIVE BestLoop_LastWins(_, _, _, _)
BestLoop_LastWins(names, tokens, best_score, best_file) ==
    IF names = <<>>
    THEN [best_score |-> best_score, best_file |-> best_file]
    ELSE IF Score(tokens, Head(names)) >= best_score
         THEN BestLoop_LastWins(Tail(names), tokens, Score(tokens, Head(names)),
                                Head(names))
         ELSE BestLoop_LastWins(Tail(names), tokens, best_score, best_file)

\* [os.path.basename(f) for f in glob.glob(os.path.join(self.commands_dir, "*"))]
AvailableFiles ==
    LET paths == Glob(<<>>) IN [i \in 1..Len(paths) |-> Basename(paths[i])]

\* TokenOverlap over the loop in which the last of equal scores wins
TokenOverlap_LastWins(cmd) ==
    LET best == BestLoop_LastWins(AvailableFiles, LongWords(Lower(cmd)), 0, None)
    IN IF best.best_score > 0
       THEN IF PrintRaises(best.best_file)
            THEN Result(None, "error", FALSE)
            ELSE Result(Join(commands_dir, best.best_file), "overlap", FALSE)
       ELSE Result(None, "none", FALSE)

\* TokenOverlap that settles for the first file when no file scores
TokenOverlap_FirstWhenZero(cmd) ==
    LET best == BestLoop(AvailableFiles, LongWords(Lower(cmd)), 0, None)
    IN IF best.best_score > 0
       THEN IF PrintRaises(best.best_file)
            THEN Result(None, "error", FALSE)
            ELSE Result(Join(commands_dir, best.best_file), "overlap", FALSE)
       ELSE Result(Join(commands_dir, AvailableFiles[1]), "overlap", FALSE)

\* The branch taken when self.llm is None.  The print of the selected name
\* stands inside the try block: when it raises, the handler returns None.
TokenOverlap(cmd) ==
    LET best == BestLoop(AvailableFiles, LongWords(Lower(cmd)), 0, None)
    IN IF best.best_score > 0
       THEN IF PrintRaises(best.best_file)
            THEN Result(None, "error", FALSE)
            ELSE Result(Join(commands_dir, best.best_file), "overlap", FALSE)
       ELSE Result(None, "none", FALSE)

\* What self.llm(prompt, max_tokens=64) can do: raise, return a str, or return
\* a dict.  An absent key, None and "" are all the empty sequence here: the
\* code reads them with .get(...) and tests them only by truthiness.
LlmRaise == [shape |-> "raise", choices |-> <<>>, text |-> <<>>]

LlmStr(text) == [shape |-> "str", choices |-> <<>>, text |-> text]

\* {"choices": [{"text": text, "message": {"content": content}}]}
LlmChoice(text, content) ==
    [shape |-> "dict", text |-> <<>>,
     choices |-> <<[text |-> text, content |-> content]>>]

\* {"choices": [], "text": text}
LlmNoChoices(text) == [shape |-> "dict", choices |-> <<>>, text |-> text]

NoLlmCall == [shape |-> "none", choices |-> <<>>, text |-> <<>>]

\* The text the code reads out of the model's answer
ExtractText(out) ==
    IF out.shape = "dict"
    THEN IF out.choices # <<>>
         THEN IF out.choices[1].text # <<>>
              THEN out.choices[1].text
              ELSE out.choices[1].content
         ELSE out.text
    ELSE out.text

\* s.splitlines()[0] of a non-empty s that does not start with a line break
FirstLine(s) == SplitOn(s, "\n")[1]

\* text.strip().splitlines()[0].strip().strip('"').strip("'")
Candidate(text) ==
    StripChars(StripChars(Strip(FirstLine(Strip(text))), {"\""}), {"'"})

\* [t for t in candidate.replace(".", " ").replace("_", " ").split() if len(t) > 2]
CandidateTokens(candidate) ==
    LongWords(Replace(Replace(candidate, ".", " "), "_", " "))

\* ModelBacked with the substring test made before the verbatim test
ModelBacked_PartialFirst(cmd, out) ==
    IF out.shape = "raise"
    THEN Result(None, "error", FALSE)
    ELSE LET text == ExtractText(out)
         IN IF text = <<>>
            THEN Result(None, "empty", FALSE)
            ELSE IF Strip(text) = <<>>
                 THEN Result(None, "error", FALSE)   \* [][0]: IndexError, caught
                 ELSE LET candidate == Candidate(text)
                          partial == SelectSeq(AvailableFiles,
                                         LAMBDA fname :
                                             Contains(Lower(candidate), Lower(fname)))
                          best == BestLoop(AvailableFiles, CandidateTokens(candidate),
                                           0, None)
                      IN IF partial # <<>>
                         THEN Result(Join(commands_dir, partial[1]), "partial", FALSE)
                         ELSE IF \E i \in 1..Len(AvailableFiles) : AvailableFiles[i] = candidate
                              THEN Result(Join(commands_dir, candidate), "verbatim", FALSE)
                              ELSE IF best.best_score > 0
                                   THEN Result(Join(commands_dir, best.best_file),
                                               "tokens", FALSE)
                                   ELSE Result(None, "none", FALSE)

\* ModelBacked that takes the candidate for a name without looking it up
ModelBacked_TrustsCandidate(cmd, out) ==
    IF out.shape = "raise"
    THEN Result(None, "error", FALSE)
    ELSE LET text == ExtractText(out)
         IN IF text = <<>>
            THEN Result(None, "empty", FALSE)
            ELSE IF Strip(text) = <<>>
                 THEN Result(None, "error", FALSE)   \* [][0]: IndexError, caught
                 ELSE LET candidate == Candidate(text)
                          partial == SelectSeq(AvailableFiles,
                                         LAMBDA fname :
                                             Contains(Lower(candidate), Lower(fname)))
                          best == BestLoop(AvailableFiles, CandidateTokens(candidate),
                                           0, None)
                      IN IF candidate # <<>>
                         THEN Result(Join(commands_dir, candidate), "verbatim", FALSE)
                         ELSE IF partial # <<>>
                              THEN Result(Join(commands_dir, partial[1]), "partial", FALSE)
                              ELSE IF best.best_score > 0
                                   THEN Result(Join(commands_dir, best.best_file),
                                               "tokens", FALSE)
                                   ELSE Result(None, "none", FALSE)

\* The branch taken when self.llm is loaded.
ModelBacked(cmd, out) ==
    IF out.shape = "raise"
    THEN Result(None, "error", FALSE)
    ELSE LET text == ExtractText(out)
         IN IF text = <<>>
            THEN Result(None, "empty", FALSE)
            ELSE IF Strip(text) = <<>>
                 THEN Result(None, "error", FALSE)   \* [][0]: IndexError, caught
                 ELSE LET candidate == Candidate(text)
                          partial == SelectSeq(AvailableFiles,
                                         LAMBDA fname :
                                             Contains(Lower(candidate), Lower(fname)))
                          best == BestLoop(AvailableFiles, CandidateTokens(candidate),
                                           0, None)
                      IN IF \E i \in 1..Len(AvailableFiles) : AvailableFiles[i] = candidate
                         THEN Result(Join(commands_dir, candidate), "verbatim", FALSE)
                         ELSE IF partial # <<>>
                              THEN Result(Join(commands_dir, partial[1]), "partial", FALSE)
                              ELSE IF best.best_score > 0
                                   THEN Result(Join(commands_dir, best.best_file),
                                               "tokens", FALSE)
                                   ELSE Result(None, "none", FALSE)

\* Whether the call reaches self.llm(prompt, max_tokens=64)
LlmCalled == AvailableFiles # <<>> /\ llm # "None"

query_local_llm(cmd, out) ==
    IF AvailableFiles = <<>>
    THEN Result(None, "no_files", FALSE)
    ELSE IF llm = "None"
         THEN TokenOverlap(cmd)
         ELSE ModelBacked(cmd, out)

(***************************************************************************)
(* query_gemini                                                            *)
(***************************************************************************)
\* What requests.post(...) and response.json() can do.  dump is the text
\* json.dumps(result) or str(result) gives for the body.
HttpRaise == [shape |-> "raise", text |-> <<>>, dump |-> <<>>]

BadJson == [shape |-> "bad_json", text |-> <<>>, dump |-> <<>>]

\* {"candidates": [{"content": {"parts": [{"text": text}]}}]}
Reply(text) == [shape |-> "text", text |-> text, dump |-> <<>>]

\* {"candidates": [{"content": {"parts": [{}]}}]}
ReplyNoText == [shape |-> "no_text", text |-> <<>>, dump |-> <<>>]

\* {"candidates": [{"content": {"parts": [{"text": null}]}}]}
ReplyNullText == [shape |-> "null_text", text |-> <<>>, dump |-> <<>>]

\* a dict with no "candidates" key, or with "candidates": []
NoCandidates(dump) == [shape |-> "no_candidates", text |-> <<>>, dump |-> dump]

\* the extraction raises: "parts": [], or a body that is no dict
ExtractRaises(dump) == [shape |-> "extract_raises", text |-> <<>>, dump |-> dump]

NoResponse == [shape |-> "none", text |-> <<>>, dump |-> <<>>]

\* The text the code goes on to classify
AdvisoryText(resp) ==
    IF resp.shape = "text"
    THEN resp.text
    ELSE IF resp.shape \in {"no_candidates", "extract_raises"}
         THEN resp.dump
         ELSE <<>>

\* Verdict on the text as it is, not lower-cased
Verdict_CaseKept(text) ==
    LET text_lower == text
    IN IF Contains(t_safe, text_lower) \/ StartsWith(Strip(text_lower), t_safe)
       THEN TRUE
       ELSE IF Contains(t_unsafe, text_lower) \/ StartsWith(Strip(text_lower), t_unsafe)
            THEN FALSE
            ELSE \E k \in {t_yes, t_ok, t_doable, t_feasible} : Contains(k, text_lower)

\* The tests on text_lower, in the order of the code
Verdict(text) ==
    LET text_lower == Lower(text)
    IN IF Contains(t_safe, text_lower) \/ StartsWith(Strip(text_lower), t_safe)
       THEN TRUE
       ELSE IF Contains(t_unsafe, text_lower) \/ StartsWith(Strip(text_lower), t_unsafe)
            THEN FALSE
            ELSE \E k \in {t_yes, t_ok, t_doable, t_feasible} : Contains(k, text_lower)

\* query_gemini with the credential test `is None` in place of `not`
query_gemini_KeyIsNone(cmd, resp) ==
    IF gemini_api_key = "None"
    THEN [safe |-> FALSE, sent |-> FALSE]
    ELSE IF resp.shape \in {"raise", "bad_json", "null_text"}
         THEN [safe |-> FALSE, sent |-> TRUE]
         ELSE [safe |-> Verdict(AdvisoryText(resp)), sent |-> TRUE]

\* query_gemini whose except clause returns True
query_gemini_FailsOpen(cmd, resp) ==
    IF gemini_api_key \in {"None", ""}
    THEN [safe |-> FALSE, sent |-> FALSE]
    ELSE IF resp.shape \in {"raise", "bad_json", "null_text"}
         THEN [safe |-> TRUE, sent |-> TRUE]
         ELSE [safe |-> Verdict(AdvisoryText(resp)), sent |-> TRUE]

\* safe: the value returned; sent: whether requests.post was called
query_gemini(cmd, resp) ==
    IF gemini_api_key \in {"None", ""}
    THEN [safe |-> FALSE, sent |-> FALSE]
    ELSE IF resp.shape \in {"raise", "bad_json", "null_text"}
         THEN [safe |-> FALSE, sent |-> TRUE]
         ELSE [safe |-> Verdict(AdvisoryText(resp)), sent |-> TRUE]

(***************************************************************************)
(* Inputs of the model                                                     *)
(***************************************************************************)
Dir(names) == [exists |-> TRUE, names |-> names]

MissingDir == [exists |-> FALSE, names |-> <<>>]

\* Directory contents, in the order the enumeration gives them
Registries ==
    { <<f_move_forward_sh, f_celebrate_py>>,
      <<f_celebrate_py, f_move_forward_sh>>,
      <<f_celebrate_py, f_go_up_sh, f_move_forward_sh>>,
      <<f_Move_Forward_sh, f_move_forward_sh>>,
      <<f_move_back_py, f_move_forward_sh>>,
      <<>> }

Directories == {Dir(r) : r \in Registries} \cup {MissingDir}

\* The directories above and one that holds a name stdout cannot encode
RawDirectories == Directories \cup {Dir(<<f_caf_sh, f_celebrate_py>>)}

\* Utterances made of at most n words of Words, one space between two words
Words == {w_move, w_forward, w_please, w_up}

RECURSIVE Phrases(_)
Phrases(n) ==
    IF n <= 1
    THEN Words
    ELSE Phrases(n - 1) \cup {p \o <<" ">> \o w : p \in Phrases(n - 1), w \in Words}

\* Largest number of words of a generated utterance
MaxWords == 2

\* Utterances that hold what the generated ones lack: no text, blanks at the
\* ends, runs of blanks, a tab, upper case, a word no name contains
PickedUtterances ==
    { u_empty, u_blank, u_move_forward_please, u_move_2sp_forward, u_go_2sp_up,
      u_go_tab_up, u_pad_go_up, u_please_move_forward, u_dance, u_Celebrate, u_caf }

Utterances == PickedUtterances \cup Phrases(MaxWords)

LlmOutcomes ==
    { LlmRaise,
      LlmChoice(m_quoted_celebrate, <<>>),
      LlmChoice(<<>>, f_move_forward_sh),
      LlmChoice(m_two_quotes, <<>>),
      LlmChoice(<<>>, <<>>),
      LlmNoChoices(<<>>),
      LlmStr(u_Celebrate),
      LlmStr(m_the_forward_script),
      LlmStr(m_nothing_fits),
      LlmStr(m_Move_now),
      LlmStr(m_spaces) }

Responses ==
    { HttpRaise, BadJson, ReplyNoText, ReplyNullText,
      Reply(a_unsafe_damage), Reply(a_safe), Reply(a_not_safe), Reply(a_yes),
      Reply(a_no), Reply(a_looks_doable), Reply(a_book), Reply(a_empty),
      NoCandidates(b_blocked), NoCandidates(b_error), NoCandidates(b_empty_cand),
      NoCandidates(b_empty_cand_tokens),
      ExtractRaises(b_empty_parts), ExtractRaises(b_empty_parts_safety),
      ExtractRaises(b_list) }

\* How the child process of execute_file can end
ExecOutcomes == {"exit0", "nonzero", "launch_error"}

(***************************************************************************)
(* The state machine                                                       *)
(***************************************************************************)
\* The value of file_path and predicted_path before their tier has run
NotRun == Result(None, "not_run", FALSE)

\* The value of prev while handle_command has been called at most once
NoPrev ==
    [ran |-> FALSE, command |-> None, llm_out |-> NoLlmCall, response |-> NoResponse,
     file_path |-> NotRun, predicted_path |-> NotRun, executed |-> <<>>,
     requests |-> 0, outcome |-> "None"]

config ==
    <<commands_dir, gemini_api_key, model_path, use_local_llm, llm, dir_exists,
      listing>>

InitWith(dirs) ==
    /\ commands_dir = DefaultCommandsDir
    /\ gemini_api_key \in {"None", "", "key"}
    /\ model_path = DefaultModelPath
    /\ llm \in {"None", "loaded"}
    /\ use_local_llm = (llm = "loaded")
    /\ \E d \in dirs : dir_exists = d.exists /\ listing = d.names
    /\ pc = "idle"
    /\ command = None
    /\ log = <<>>
    /\ file_path = NotRun
    /\ predicted_path = NotRun
    /\ llm_out = NoLlmCall
    /\ response = NoResponse
    /\ executed = <<>>
    /\ requests = 0
    /\ outcome = "None"
    /\ player = "none"
    /\ prev = NoPrev

Init == InitWith(Directories)

InitRaw == InitWith(RawDirectories)

run_vars ==
    <<log, file_path, predicted_path, llm_out, response, executed, requests, outcome,
      player>>

\* handle_command is entered with the text c.
StartRun(c) ==
    /\ command' = c
    /\ pc' = "handle"
    /\ UNCHANGED run_vars

\* What self.llm and the advisory service answer in this call.  They are
\* deterministic: asked again in a repeated call, they answer as before.
LlmAnswers ==
    IF prev.ran /\ prev.llm_out # NoLlmCall THEN {prev.llm_out} ELSE LlmOutcomes

AdvisoryAnswers ==
    IF prev.ran /\ prev.response # NoResponse THEN {prev.response} ELSE Responses

\* Listen on a thread of its own: an utterance is accepted while a run is in
\* progress
Listen_WhileRunning ==
    /\ pc \in {"idle", "llm", "gemini"}
    /\ \E heard \in Utterances \cup {None} :
           IF Lower(heard) # <<>>
           THEN StartRun(Lower(heard))
           ELSE UNCHANGED <<pc, command, run_vars>>
    /\ UNCHANGED <<config, prev>>

\* run(): command = self.listen(); if command: self.handle_command(command).
\* listen() returns None or the recognized text, lower-cased.
Listen ==
    /\ pc = "idle"
    /\ \E heard \in Utterances \cup {None} :
           IF Lower(heard) # <<>>
           THEN StartRun(Lower(heard))
           ELSE UNCHANGED <<pc, command, run_vars>>
    /\ UNCHANGED <<config, prev>>

\* handle_command(command) called with any text
Call ==
    /\ pc = "idle"
    /\ \E c \in Utterances : StartRun(c)
    /\ UNCHANGED <<config, prev>>

\* execute_file(path): what it adds to the log.  subprocess.run(check=False)
\* raises only when the child cannot be launched; the handler speaks.
ExecLog(x) ==
    IF x = "launch_error"
    THEN <<"execute_file", x, "speak:error_executing">>
    ELSE <<"execute_file", x>>

\* StepFind without the return after execute_file: the run goes on to the
\* next tier
StepFind_NoReturn ==
    /\ pc = "handle"
    /\ IF command = <<>>
       THEN /\ pc' = "done"
            /\ outcome' = "NoOp"
            /\ UNCHANGED <<log, file_path, executed>>
       ELSE LET r == find_local_command(command)
            IN /\ file_path' = r
               /\ IF r.raised
                  THEN /\ pc' = "raised"
                       /\ outcome' = "Raised"
                       /\ log' = <<"find_local_command">>
                       /\ UNCHANGED executed
                  ELSE IF r.ret # None
                       THEN \E x \in ExecOutcomes :
                                /\ pc' = "llm"
                                /\ outcome' = "None"
                                /\ log' = <<"find_local_command", "speak:executing">>
                                              \o ExecLog(x)
                                /\ executed' = <<Argv(r.ret)>>
                       ELSE /\ pc' = "llm"
                            /\ log' = <<"find_local_command">>
                            /\ UNCHANGED <<executed, outcome>>
    /\ UNCHANGED <<config, prev, command, predicted_path, llm_out, response,
                   requests,
                   player>>

\* handle_command, lines 193-203: the guard, find_local_command, execute
StepFind ==
    /\ pc = "handle"
    /\ IF command = <<>>
       THEN /\ pc' = "done"
            /\ outcome' = "NoOp"
            /\ UNCHANGED <<log, file_path, executed>>
       ELSE LET r == find_local_command(command)
            IN /\ file_path' = r
               /\ IF r.raised
                  THEN /\ pc' = "raised"
                       /\ outcome' = "Raised"
                       /\ log' = <<"find_local_command">>
                       /\ UNCHANGED executed
                  ELSE IF r.ret # None
                       THEN \E x \in ExecOutcomes :
                                /\ pc' = "done"
                                /\ outcome' = "Executed"
                                /\ log' = <<"find_local_command", "speak:executing">>
                                              \o ExecLog(x)
                                /\ executed' = <<Argv(r.ret)>>
                       ELSE /\ pc' = "llm"
                            /\ log' = <<"find_local_command">>
                            /\ UNCHANGED <<executed, outcome>>
    /\ UNCHANGED <<config, prev, command, predicted_path, llm_out, response,
                   requests,
                   player>>

\* StepLlm that goes on to the advisory tier when the child process failed
StepLlm_EscalatesFailure ==
    /\ pc = "llm"
    /\ player # "running"
    /\ player' = "none"
    /\ \E out \in LlmAnswers :
           LET r == query_local_llm(command, out)
               base == (IF player = "none" THEN <<"speak:checking_patterns">> ELSE <<>>)
                           \o <<"query_local_llm">>
           IN /\ llm_out' = IF LlmCalled THEN out ELSE NoLlmCall
              /\ predicted_path' = r
              /\ IF r.ret = None
                 THEN /\ pc' = "gemini"
                      /\ log' = log \o base
                      /\ UNCHANGED <<executed, outcome>>
                 ELSE IF PrintRaises(Basename(r.ret))
                      THEN /\ pc' = "raised"
                           /\ outcome' = "Raised"
                           /\ log' = log \o base
                           /\ UNCHANGED executed
                      ELSE \E x \in ExecOutcomes :
                               /\ pc' = IF x = "exit0" THEN "done" ELSE "gemini"
                               /\ outcome' = IF x = "exit0" THEN "Executed" ELSE "None"
                               /\ log' = log \o base \o <<"speak:found_similar">>
                                             \o ExecLog(x)
                               /\ executed' = <<Argv(r.ret)>>
    /\ UNCHANGED <<config, prev, command, file_path, response, requests>>

\* handle_command, lines 205-212: narration, query_local_llm, execute.
\* speak() prints its text before its try block.
StepLlm ==
    /\ pc = "llm"
    /\ player # "running"
    /\ player' = "none"
    /\ \E out \in LlmAnswers :
           LET r == query_local_llm(command, out)
               base == (IF player = "none" THEN <<"speak:checking_patterns">> ELSE <<>>)
                           \o <<"query_local_llm">>
           IN /\ llm_out' = IF LlmCalled THEN out ELSE NoLlmCall
              /\ predicted_path' = r
              /\ IF r.ret = None
                 THEN /\ pc' = "gemini"
                      /\ log' = log \o base
                      /\ UNCHANGED <<executed, outcome>>
                 ELSE IF PrintRaises(Basename(r.ret))
                      THEN /\ pc' = "raised"
                           /\ outcome' = "Raised"
                           /\ log' = log \o base
                           /\ UNCHANGED executed
                      ELSE \E x \in ExecOutcomes :
                               /\ pc' = "done"
                               /\ outcome' = "Executed"
                               /\ log' = log \o base \o <<"speak:found_similar">>
                                             \o ExecLog(x)
                               /\ executed' = <<Argv(r.ret)>>
    /\ UNCHANGED <<config, prev, command, file_path, response, requests>>

\* StepGemini that asks the advisory service first and narrates afterwards
StepGemini_AsksFirst ==
    /\ pc = "gemini"
    /\ player # "running"
    /\ player' = "none"
    /\ \E resp \in AdvisoryAnswers :
           LET v == query_gemini(command, resp)
           IN /\ response' = IF v.sent THEN resp ELSE NoResponse
              /\ requests' = requests + (IF v.sent THEN 1 ELSE 0)
              /\ outcome' = IF v.safe THEN "FeasibleNoArtifact" ELSE "Infeasible"
              /\ log' = log \o <<"query_gemini">>
                             \o (IF player = "none" THEN <<"speak:check_gemini">> ELSE <<>>)
                             \o <<
                                  IF v.safe THEN "speak:feasible"
                                            ELSE "speak:not_executing">>
    /\ pc' = "done"
    /\ UNCHANGED <<config, prev, command, file_path, predicted_path, llm_out,
                   executed>>

\* handle_command, lines 214-223: narration, query_gemini, the verdict
StepGemini ==
    /\ pc = "gemini"
    /\ player # "running"
    /\ player' = "none"
    /\ \E resp \in AdvisoryAnswers :
           LET v == query_gemini(command, resp)
           IN /\ response' = IF v.sent THEN resp ELSE NoResponse
              /\ requests' = requests + (IF v.sent THEN 1 ELSE 0)
              /\ outcome' = IF v.safe THEN "FeasibleNoArtifact" ELSE "Infeasible"
              /\ log' = log \o (IF player = "none" THEN <<"speak:check_gemini">> ELSE <<>>)
                             \o <<"query_gemini",
                                  IF v.safe THEN "speak:feasible"
                                            ELSE "speak:not_executing">>
    /\ pc' = "done"
    /\ UNCHANGED <<config, prev, command, file_path, predicted_path, llm_out,
                   executed>>

\* Loop in which run() reads GEMINI_API_KEY from the environment again
Loop_RereadsKey ==
    /\ pc = "done"
    /\ pc' = "idle"
    /\ command' = None
    /\ log' = <<>>
    /\ file_path' = NotRun
    /\ predicted_path' = NotRun
    /\ llm_out' = NoLlmCall
    /\ response' = NoResponse
    /\ executed' = <<>>
    /\ requests' = 0
    /\ outcome' = "None"
    /\ player' = "none"
    /\ gemini_api_key' \in {"None", "", "key"}
    /\ UNCHANGED <<commands_dir, model_path, use_local_llm, llm, dir_exists, listing,
                   prev>>

\* handle_command has returned: run() sleeps and loops.  Nothing of the run
\* is kept: every value of a run lives in locals of handle_command.
Loop ==
    /\ pc = "done"
    /\ pc' = "idle"
    /\ command' = None
    /\ log' = <<>>
    /\ file_path' = NotRun
    /\ predicted_path' = NotRun
    /\ llm_out' = NoLlmCall
    /\ response' = NoResponse
    /\ executed' = <<>>
    /\ requests' = 0
    /\ outcome' = "None"
    /\ player' = "none"
    /\ UNCHANGED <<config, prev>>

\* run(): except KeyboardInterrupt, at any point of the loop.  run() returns
\* and with it every local of the run that was interrupted.
KeyboardInterrupt ==
    /\ pc \in {"idle", "handle", "llm", "gemini", "done"}
    /\ pc' = "shutdown"
    /\ command' = None
    /\ log' = <<>>
    /\ file_path' = NotRun
    /\ predicted_path' = NotRun
    /\ llm_out' = NoLlmCall
    /\ response' = NoResponse
    /\ executed' = <<>>
    /\ requests' = 0
    /\ outcome' = "None"
    /\ player' = "none"
    /\ UNCHANGED <<config, prev>>

Next ==
    Listen \/ Call \/ StepFind \/ StepLlm \/ StepGemini \/ Loop \/ KeyboardInterrupt

Spec == Init /\ [][Next]_vars

\* The same program over RawDirectories
SpecRaw == InitRaw /\ [][Next]_vars

\* speak(text), called at a tier transition (lines 205 and 214): the text is
\* printed, the player is launched and subprocess.run(["mpg123", "-q",
\* filename], check=True) waits for it to exit, with no timeout.  (A player
\* that exits at once is part of StepLlm and StepGemini.)
SpeakStarts ==
    /\ pc \in {"llm", "gemini"}
    /\ player = "none"
    /\ player' = "running"
    /\ log' = log \o <<IF pc = "llm"
                       THEN "speak:checking_patterns"
                       ELSE "speak:check_gemini">>
    /\ UNCHANGED <<config, prev, pc, command, file_path, predicted_path,
                   llm_out, response,
                   executed, requests, outcome>>

\* The player exits: subprocess.run returns and speak() with it.
PlayerExits ==
    /\ player = "running"
    /\ player' = "exited"
    /\ UNCHANGED <<config, prev, pc, command, log, file_path, predicted_path,
                   llm_out,
                   response, executed, requests, outcome>>

NextPlayback == Next \/ SpeakStarts \/ PlayerExits

\* The program with players that take their time, or never exit
SpecPlayback == Init /\ [][NextPlayback]_vars

\* handle_command(command) called for the first time
FirstCall ==
    /\ pc = "idle"
    /\ ~prev.ran
    /\ \E c \in PickedUtterances : StartRun(c)
    /\ UNCHANGED <<config, prev>>

\* Again with `requests` surviving the call that returned
Again_KeepsRequests ==
    /\ pc = "done"
    /\ ~prev.ran
    /\ prev' = [ran |-> TRUE, command |-> command, llm_out |-> llm_out,
                response |-> response, file_path |-> file_path,
                predicted_path |-> predicted_path, executed |-> executed,
                requests |-> requests, outcome |-> outcome]
    /\ pc' = "handle"
    /\ log' = <<>>
    /\ file_path' = NotRun
    /\ predicted_path' = NotRun
    /\ llm_out' = NoLlmCall
    /\ response' = NoResponse
    /\ executed' = <<>>
    /\ outcome' = "None"
    /\ player' = "none"
    /\ UNCHANGED <<config, command, requests>>

\* handle_command has returned and is called again with the same text over
\* the same directory.  The locals of the call that returned are gone; no
\* tier assigns to a field of self.
Again ==
    /\ pc = "done"
    /\ ~prev.ran
    /\ prev' = [ran |-> TRUE, command |-> command, llm_out |-> llm_out,
                response |-> response, file_path |-> file_path,
                predicted_path |-> predicted_path, executed |-> executed,
                requests |-> requests, outcome |-> outcome]
    /\ pc' = "handle"
    /\ log' = <<>>
    /\ file_path' = NotRun
    /\ predicted_path' = NotRun
    /\ llm_out' = NoLlmCall
    /\ response' = NoResponse
    /\ executed' = <<>>
    /\ requests' = 0
    /\ outcome' = "None"
    /\ player' = "none"
    /\ UNCHANGED <<config, command>>

NextTwice == FirstCall \/ Again \/ StepFind \/ StepLlm \/ StepGemini

\* handle_command called twice with the same text
SpecTwice == Init /\ [][NextTwice]_vars

(***************************************************************************)
(* Properties                                                              *)
(***************************************************************************)
InLog(e) == \E i \in 1..Len(log) : log[i] = e

\* Position of the event e in the log (0 when it is not there)
At(e) == IF InLog(e) THEN CHOOSE i \in 1..Len(log) : log[i] = e ELSE 0

\* How often the event e is in the log
Times(e) == Cardinality({i \in 1..Len(log) : log[i] = e})

\* C1: an advisory response text that contains "unsafe" (in any case) gives
\* safe = false: the run that reached the advisory tier ends Infeasible.
C1_NegativePrecedence ==
    (InLog("query_gemini") /\ response.shape = "text"
     /\ Contains(t_unsafe, Lower(response.text)))
        => outcome = "Infeasible"

\* C2: a response without candidates[0].content.parts[0].text gives
\* safe = false, whatever else the body holds.
C2_MalformedFailsClosed ==
    (InLog("query_gemini")
     /\ response.shape \in {"no_candidates", "extract_raises", "no_text", "null_text"})
        => outcome = "Infeasible"

\* C3: with gemini_api_key unset or empty, query_gemini sends no request and
\* returns false: the run that reached the advisory tier ends Infeasible.
C3_NoCredentialFailsClosed ==
    (InLog("query_gemini") /\ gemini_api_key \in {"None", ""})
        => (requests = 0 /\ response = NoResponse /\ outcome = "Infeasible")

C3_Witness ==
    /\ pc = "done"
    /\ gemini_api_key = ""
    /\ InLog("query_gemini")
    /\ requests = 0
    /\ outcome = "Infeasible"

\* C4: an empty or whitespace-only utterance is a no-op: no tier is entered,
\* nothing is narrated, nothing is executed.
C4_BlankIsNoOp ==
    (pc \notin {"idle", "handle"} /\ Strip(command) = <<>>)
        => (log = <<>> /\ executed = <<>> /\ file_path = NotRun)

Tiers == {"find_local_command", "query_local_llm", "query_gemini"}

\* C5: the tiers are entered in the order find_local_command,
\* query_local_llm, query_gemini, each at most once; query_local_llm only
\* after find_local_command returned None, query_gemini only after both
\* returned None; once a matcher returns an entry no later tier is invoked.
C5_EscalationOrder ==
    /\ \A e \in Tiers : Times(e) <= 1
    /\ InLog("query_local_llm")
           => /\ InLog("find_local_command")
              /\ At("find_local_command") < At("query_local_llm")
              /\ file_path.tier # "not_run"
              /\ file_path.ret = None
    /\ InLog("query_gemini")
           => /\ InLog("query_local_llm")
              /\ At("query_local_llm") < At("query_gemini")
              /\ predicted_path.tier # "not_run"
              /\ predicted_path.ret = None
              /\ file_path.ret = None
    /\ file_path.ret # None => ~InLog("query_local_llm") /\ ~InLog("query_gemini")
    /\ predicted_path.ret # None => ~InLog("query_gemini")

C5_Witness ==
    /\ pc = "done"
    /\ At("find_local_command") = 1
    /\ At("find_local_command") < At("query_local_llm")
    /\ At("query_local_llm") < At("query_gemini")

\* C6: when the model call raises, query_local_llm returns what the
\* token-overlap fallback returns for the utterance.
C6_DegradesToOverlap ==
    (InLog("query_local_llm") /\ llm_out.shape = "raise")
        => predicted_path.ret = TokenOverlap(command).ret

\* C7: an exception raised by a tier does not leave handle_command: the run
\* goes on to the next tier or ends, and run() goes on listening.
C7_TierExceptionContained ==
    (file_path.raised \/ predicted_path.raised) => pc # "raised"

\* words joined by sep
RECURSIVE JoinWith(_, _)
JoinWith(words, sep) ==
    IF words = <<>>
    THEN <<>>
    ELSE IF Len(words) = 1
         THEN words[1]
         ELSE words[1] \o <<sep>> \o JoinWith(Tail(words), sep)

\* The pattern as C8 states it: each run of whitespace of the (trimmed)
\* utterance replaced by a single "_", case-folded
RunsPattern(cmd) == JoinWith(Split(Lower(cmd)), "_")

\* The least of a set of places of the listing (0 when the set is empty)
First(places) ==
    IF places = {} THEN 0 ELSE CHOOSE i \in places : \A j \in places : i <= j

\* The places of the listing
Places == 1..Len(listing)

\* C8: when the pattern (whitespace runs replaced by one "_", case-folded)
\* is a substring of some Registry name, find_local_command returns the
\* first entry, in snapshot order, whose name contains the pattern, by the
\* exact tier (the heuristic tier is not consulted).
C8_ExactTierRuns ==
    LET hits == {i \in Places : Contains(RunsPattern(command), listing[i])}
    IN (file_path.tier # "not_run" /\ dir_exists /\ hits # {})
           => /\ file_path.tier = "exact"
              /\ file_path.ret = Join(commands_dir, listing[First(hits)])

\* The first two words of length > 2 of a text
FirstTwoLongWords(text) ==
    LET ws == Split(text)
        long == {i \in 1..Len(ws) : Len(ws[i]) > 2}
        rank(i) == Cardinality({j \in long : j <= i})
    IN {ws[i] : i \in {k \in long : rank(k) <= 2}}

\* Every word of ws is a substring of a token of name (split on "." and
\* "_"): it occurs in name at a place where it spans no "." and no "_"
CoveredBy(ws, name) ==
    \A w \in ws :
        \E p \in 0..(Len(name) - Len(w)) :
            \A k \in 1..Len(w) : name[p + k] = w[k] /\ w[k] \notin {".", "_"}

\* The exact tier of the code found nothing for the utterance
NoExactMatch ==
    file_path.tier # "not_run" /\ dir_exists /\ Glob(Pattern(command)) = <<>>

\* C9 as stated: with no exact match, if each of the first two utterance
\* tokens of length > 2 is a substring of a token of some entry's name,
\* find_local_command returns the first such entry in snapshot order.
C9_HeuristicAsStated ==
    LET hits == {i \in Places : CoveredBy(FirstTwoLongWords(command), listing[i])}
    IN (NoExactMatch /\ hits # {})
           => file_path.ret = Join(commands_dir, listing[First(hits)])

\* C9 amended: the tokens are those of the lower-cased utterance, the name
\* tokens those of the lower-cased name.  Registry <<move_forward.sh,
\* celebrate.py>> and "move forward please" end Executed on move_forward.sh.
C9_HeuristicLowerCased ==
    LET hits == {i \in Places :
                     CoveredBy(FirstTwoLongWords(Lower(command)), Lower(listing[i]))}
    IN /\ (NoExactMatch /\ hits # {})
              => /\ file_path.tier = "heuristic"
                 /\ file_path.ret = Join(commands_dir, listing[First(hits)])
       /\ (pc = "done" /\ command = u_move_forward_please
           /\ listing = <<f_move_forward_sh, f_celebrate_py>>)
              => /\ outcome = "Executed"
                 /\ executed = <<<<Join(commands_dir, f_move_forward_sh)>>>>

C9_Witness ==
    /\ pc = "done"
    /\ command = u_move_forward_please
    /\ listing = <<f_Move_Forward_sh, f_move_forward_sh>>
    /\ file_path.tier = "heuristic"
    /\ file_path.ret = Join(commands_dir, f_Move_Forward_sh)
    /\ outcome = "Executed"

\* Number of the words of length > 2 of the utterance that the lower-cased
\* name contains
OverlapScore(name) ==
    LET ws == Split(Lower(command))
    IN Cardinality({i \in 1..Len(ws) : Len(ws[i]) > 2 /\ Contains(ws[i], Lower(name))})

MaxScore ==
    IF listing = <<>>
    THEN 0
    ELSE CHOOSE m \in 0..Len(command) :
             /\ \E i \in 1..Len(listing) : OverlapScore(listing[i]) = m
             /\ \A i \in 1..Len(listing) : OverlapScore(listing[i]) <= m

\* C10: with no model loaded, query_local_llm returns the entry of maximal
\* score, the first one among equal maxima, and None when the maximum is
\* zero or the Registry is empty.
C10_TokenOverlap ==
    LET best == {i \in Places : OverlapScore(listing[i]) = MaxScore}
    IN (InLog("query_local_llm") /\ llm = "None")
           => predicted_path.ret =
                  IF MaxScore = 0
                  THEN None
                  ELSE Join(commands_dir, listing[First(best)])

\* Two entries share the maximal score and the first of them is returned.
C10_Witness ==
    /\ InLog("query_local_llm")
    /\ llm = "None"
    /\ MaxScore > 0
    /\ Cardinality({i \in 1..Len(listing) : OverlapScore(listing[i]) = MaxScore}) = 2
    /\ predicted_path.ret = Join(commands_dir, listing[1])

\* C11 as stated: whenever no Registry entry scores positively for the
\* utterance, query_local_llm returns None, whether or not a model is loaded.
C11_ZeroScoreGivesNone ==
    (InLog("query_local_llm") /\ MaxScore = 0) => predicted_path.ret = None

\* C11 amended: with no model loaded, or with a model whose call raises,
\* an utterance for which no Registry entry scores positively makes
\* query_local_llm return None; nothing is executed, the next step of the
\* run is query_gemini and the run ends with the advisory verdict.
C11_ZeroScoreNoModel ==
    (InLog("query_local_llm") /\ MaxScore = 0
     /\ (llm = "None" \/ llm_out.shape = "raise"))
        => /\ predicted_path.ret = None
           /\ executed = <<>>
           /\ pc \in {"gemini", "done"}
           /\ pc = "done"
                  => /\ InLog("query_gemini")
                     /\ outcome \in {"FeasibleNoArtifact", "Infeasible"}

\* A Registry with files, none of which scores for the utterance
C11_Witness ==
    /\ pc = "done"
    /\ llm = "None"
    /\ listing # <<>>
    /\ command = u_dance
    /\ MaxScore = 0
    /\ predicted_path.tier = "none"
    /\ InLog("query_gemini")
    /\ executed = <<>>

\* The words of length > 2 of a candidate, "." and "_" being delimiters
\* like whitespace
TokensOf(candidate) ==
    LET ws == Split([i \in 1..Len(candidate) |->
                        IF candidate[i] \in {".", "_"} THEN " " ELSE candidate[i]])
    IN SelectSeq(ws, LAMBDA w : Len(w) > 2)

\* Number of the tokens that the lower-cased name contains
TokenScore(tokens, name) ==
    LET lower == Lower(name)
    IN Cardinality({i \in 1..Len(tokens) : Contains(tokens[i], lower)})

\* The model answered with a text that has a first line
Answered ==
    /\ InLog("query_local_llm")
    /\ llm_out.shape \in {"str", "dict"}
    /\ Strip(ExtractText(llm_out)) # <<>>

\* C12: the candidate of the model's answer is resolved (a) by the entry of
\* that very name, else (b) by the first entry whose name contains it, case
\* ignored, else (c) by the first entry of maximal positive token score,
\* else to None.  The answer {"choices":[{"text":"  \"celebrate.py\"\n"}]}
\* with celebrate.py in the Registry resolves verbatim and the run ends
\* Executed on celebrate.py.
C12_ResolutionOrder ==
    LET candidate == Candidate(ExtractText(llm_out))
        lower == Lower(candidate)
        tokens == TokensOf(candidate)
        score == [i \in Places |-> TokenScore(tokens, listing[i])]
        verbatim == {i \in Places : listing[i] = candidate}
        partial == {i \in Places : Contains(lower, Lower(listing[i]))}
        top == {i \in Places : \A j \in Places : score[j] <= score[i]}
    IN /\ Answered
              => IF verbatim # {}
                 THEN /\ predicted_path.tier = "verbatim"
                      /\ predicted_path.ret = Join(commands_dir, candidate)
                 ELSE IF partial # {}
                      THEN /\ predicted_path.tier = "partial"
                           /\ predicted_path.ret =
                                  Join(commands_dir, listing[First(partial)])
                      ELSE IF top # {} /\ score[First(top)] > 0
                           THEN /\ predicted_path.tier = "tokens"
                                /\ predicted_path.ret =
                                       Join(commands_dir, listing[First(top)])
                           ELSE predicted_path.ret = None
       /\ (pc = "done" /\ llm_out = LlmChoice(m_quoted_celebrate, <<>>)
           /\ \E i \in Places : listing[i] = f_celebrate_py)
              => /\ predicted_path.tier = "verbatim"
                 /\ outcome = "Executed"
                 /\ executed = <<<<t_python3, Join(commands_dir, f_celebrate_py)>>>>

\* The answer "the forward script" is no name and part of no name: it is
\* resolved by its tokens.
C12_Witness ==
    /\ pc = "done"
    /\ llm_out = LlmStr(m_the_forward_script)
    /\ listing = <<f_celebrate_py, f_move_forward_sh>>
    /\ predicted_path.tier = "tokens"
    /\ predicted_path.ret = Join(commands_dir, f_move_forward_sh)
    /\ outcome = "Executed"

\* handle_command has stopped: it returned, or an exception left it
RunEnded == pc \in {"done", "raised"}

\* C13: a run on a non-empty utterance ends in exactly one of Executed,
\* FeasibleNoArtifact and Infeasible; it ends Executed exactly when a
\* matcher returned an entry, and then execute_file was invoked once; in the
\* two other outcomes nothing was executed; execute_file is never invoked
\* twice in a run.
C13_OneTerminalOutcome ==
    /\ Times("execute_file") <= 1
    /\ (RunEnded /\ command # <<>>)
           => /\ outcome \in {"Executed", "FeasibleNoArtifact", "Infeasible"}
              /\ outcome = "Executed"
                     <=> (file_path.ret # None \/ predicted_path.ret # None)
              /\ outcome = "Executed"
                     => (Times("execute_file") = 1 /\ Len(executed) = 1)
              /\ outcome # "Executed"
                     => (Times("execute_file") = 0 /\ executed = <<>>
                         /\ InLog("query_gemini"))

\* C14: with commands_dir missing, find_local_command and query_local_llm
\* return None and raise nothing, nothing is executed, and a run on a
\* non-empty utterance ends after query_gemini with the outcome its verdict
\* gives: FeasibleNoArtifact when it returned true, Infeasible otherwise.
C14_MissingDirNonFatal ==
    ~dir_exists
        => /\ file_path.tier # "not_run" => file_path = Result(None, "unavailable", FALSE)
           /\ predicted_path.tier # "not_run"
                  => (predicted_path.ret = None /\ ~predicted_path.raised)
           /\ pc # "raised"
           /\ executed = <<>>
           /\ (pc = "done" /\ command # <<>>)
                  => /\ log[1] = "find_local_command"
                     /\ InLog("query_local_llm")
                     /\ InLog("query_gemini")
                     /\ outcome = IF query_gemini(command, response).safe
                                  THEN "FeasibleNoArtifact"
                                  ELSE "Infeasible"

\* No directory, a credential, the answer "SAFE": the verdict decides.
C14_Witness ==
    /\ ~dir_exists
    /\ pc = "done"
    /\ command = u_move_forward_please
    /\ file_path.tier = "unavailable"
    /\ predicted_path.tier = "no_files"
    /\ response = Reply(a_safe)
    /\ outcome = "FeasibleNoArtifact"

C16_NarrationNeverBlocks ==
    player = "running" => ENABLED (StepLlm \/ StepGemini)

\* The event e is in the log and the event before it is one of before
Preceded(e, before) == InLog(e) => (At(e) > 1 /\ log[At(e) - 1] \in before)

\* C17: in every run the narration of a tier transition comes right before
\* the tier: "checking patterns" before query_local_llm, "check with
\* Gemini" before query_gemini, an execution announcement before
\* execute_file; and a run that ends in the advisory tier ends with the
\* narration of its verdict.
C17_AnnouncedBeforeTier ==
    /\ Preceded("query_local_llm", {"speak:checking_patterns"})
    /\ Preceded("query_gemini", {"speak:check_gemini"})
    /\ Preceded("execute_file", {"speak:executing", "speak:found_similar"})
    /\ InLog("speak:executing") => file_path.ret # None
    /\ InLog("speak:found_similar") => predicted_path.ret # None
    /\ (pc = "done" /\ outcome = "FeasibleNoArtifact")
           => log[Len(log)] = "speak:feasible"
    /\ (pc = "done" /\ outcome = "Infeasible")
           => log[Len(log)] = "speak:not_executing"

\* A run through the three tiers, each announced
C17_Witness ==
    /\ pc = "done"
    /\ outcome = "FeasibleNoArtifact"
    /\ log = <<"find_local_command", "speak:checking_patterns", "query_local_llm",
               "speak:check_gemini", "query_gemini", "speak:feasible">>

\* C18: when requests.post raises, or response.json() cannot decode the
\* body, query_gemini returns false and raises nothing: the run ends
\* Infeasible, narrated as "not executing".
C18_TransportFailsClosed ==
    (InLog("query_gemini") /\ response.shape \in {"raise", "bad_json"})
        => /\ pc = "done"
           /\ outcome = "Infeasible"
           /\ requests = 1
           /\ executed = <<>>
           /\ log[Len(log)] = "speak:not_executing"

C18_Witness ==
    /\ pc = "done"
    /\ gemini_api_key = "key"
    /\ response = BadJson
    /\ outcome = "Infeasible"

\* C19: for a response text that holds neither "unsafe" nor "safe" (case
\* ignored), query_gemini returns true exactly when the text holds one of
\* "yes", "ok", "feasible", "doable" (case ignored); so false for the
\* empty text.
C19_GenericAffirmative ==
    LET text == Lower(response.text)
    IN (InLog("query_gemini") /\ response.shape \in {"text", "no_text"}
        /\ ~Contains(t_unsafe, text) /\ ~Contains(t_safe, text))
           => /\ pc = "done"
              /\ outcome = "FeasibleNoArtifact"
                     <=> \E k \in {t_yes, t_ok, t_feasible, t_doable} : Contains(k, text)
              /\ outcome = "Infeasible"
                     <=> \A k \in {t_yes, t_ok, t_feasible, t_doable} : ~Contains(k, text)
              /\ response.text = <<>> => outcome = "Infeasible"

\* "Yes" holds "yes" once the case is ignored.
C19_Witness ==
    /\ pc = "done"
    /\ response = Reply(a_yes)
    /\ outcome = "FeasibleNoArtifact"

C21_ConfigReadOnly ==
    [][UNCHANGED <<commands_dir, model_path, gemini_api_key, use_local_llm, llm>>]_vars

\* A run whose model call and advisory request both raised has ended, and a
\* model and a credential are still configured.
C21_Witness ==
    /\ pc = "done"
    /\ llm_out = LlmRaise
    /\ response = HttpRaise
    /\ llm = "loaded"
    /\ use_local_llm
    /\ gemini_api_key = "key"
    /\ model_path = DefaultModelPath
    /\ commands_dir = DefaultCommandsDir

\* C22: handle_command is entered only from the idle loop of run(), when
\* the run before has returned and nothing of it is left: no step starts a
\* run, or changes the utterance, while a run is in progress.
C22_RunsSequential ==
    [][/\ (pc' = "handle" \/ (command' # command /\ command' # None))
           => /\ pc = "idle"
              /\ pc' = "handle"
              /\ command = None
              /\ log = <<>>
              /\ file_path = NotRun
              /\ predicted_path = NotRun
              /\ executed = <<>>
              /\ outcome = "None"
       /\ pc \in {"handle", "llm", "gemini"} => command' \in {command, None}]_vars

\* A run is in progress, past its first two tiers
C22_Witness ==
    /\ pc = "gemini"
    /\ command = u_dance
    /\ InLog("query_local_llm")
    /\ predicted_path.tier # "not_run"
    /\ outcome = "None"

\* The path the matchers handed to execute_file in this run
MatchedPath == IF file_path.ret # None THEN file_path.ret ELSE predicted_path.ret

\* C23: what execute_file hands to subprocess.run is a vector of
\* arguments: the interpreter "python3" and the matched path when the path
\* ends in ".py", the matched path alone otherwise; the path is one
\* argument, as the matcher returned it.
C23_ArgumentVector ==
    InLog("execute_file")
        => /\ Len(executed) = 1
           /\ MatchedPath # None
           /\ LET argv == executed[1]
                  script == /\ Len(MatchedPath) >= 3
                            /\ SubSeq(MatchedPath, Len(MatchedPath) - 2, Len(MatchedPath))
                                   = <<".", "p", "y">>
              IN /\ argv[Len(argv)] = MatchedPath
                 /\ script => argv = <<t_python3, MatchedPath>>
                 /\ ~script => argv = <<MatchedPath>>

\* A script found by find_local_command is run through the interpreter.
C23_Witness ==
    /\ pc = "done"
    /\ file_path.ret = Join(commands_dir, f_move_back_py)
    /\ executed = <<<<t_python3, Join(commands_dir, f_move_back_py)>>>>
    /\ InLog("exit0")

\* C24: find_local_command returns an entry only when the entry qualifies:
\* its name contains the pattern, or the utterance has a token of length
\* > 2 and each of its first two such tokens is a substring of a token of
\* the name.  So an utterance of short words only, with no exact match,
\* gives None.
C24_OnlyQualified ==
    \A i \in Places :
        (file_path.ret = Join(commands_dir, listing[i]) /\ file_path.ret # None)
            => \/ Contains(Pattern(command), listing[i])
               \/ Contains(RunsPattern(command), listing[i])
               \/ /\ FirstTwoLongWords(Lower(command)) # {}
                  /\ CoveredBy(FirstTwoLongWords(Lower(command)), Lower(listing[i]))

NoFilenameText ==
    LET text == ExtractText(llm_out)
    IN /\ llm_out.shape \in {"str", "dict"}
       /\ IF Strip(text) = <<>> THEN TRUE ELSE Candidate(text) = <<>>

\* C26: a model answer that carries no filename text selects no entry:
\* query_local_llm returns None, raises nothing, and the run executes
\* nothing.
C26_NoTextNoEntry ==
    (InLog("query_local_llm") /\ NoFilenameText)
        => /\ predicted_path.ret = None
           /\ ~predicted_path.raised
           /\ executed = <<>>
=============================================================================
